---- MODULE Spec2Model ----
(***************************************************************************)
(* A model of surya/scripts/pipeline.py (layout -> crop -> OCR) and of the *)
(* "Run Full Pipeline" block of surya/scripts/streamlit_app.py.            *)
(*                                                                         *)
(* Strings are sequences of one-character strings, so that substring       *)
(* tests, suffix tests, the regular expression box_(\d+) and str.strip()   *)
(* are computed character by character as Python computes them.           *)
(*                                                                         *)
(* Python floats are modelled by exact rationals [n |-> num, d |-> den]    *)
(* with d > 0; int() is truncation toward zero.                            *)
(***************************************************************************)
EXTENDS Integers, Sequences, FiniteSets, TLC

VARIABLES
    mode,             \* which entry point is running: "pdf", "image", "ocr", "app"
    pc,               \* position of the running function
    layout_data_len,  \* len(layout_data): number of documents in the results JSON
    doc_key,          \* list(layout_data.keys())[0]
    page_data_list,   \* layout_data[doc_key]: sequence of [page, bboxes]
    original_images,  \* convert_from_path(...): sequence of page sizes [w, h]
    layout_dir,       \* os.listdir(layout_image_dir): sequence of [name, w, h]
    margin_x_ratio,   \* margin_x_ratio (margin_ratio in direct mode)
    margin_y_ratio,   \* margin_y_ratio (margin_ratio in direct mode)
    page_i,           \* position of the page loop in page_data_list (1-based)
    page_num,         \* page_data["page"] of the entry being processed
    matched_layout_file, \* the file the matching loop selected, <<>> for None
    not_found,        \* page indexes printed as "Layout image ... not found"
    orig_size,        \* [w, h] of the image being cropped
    layout_size,      \* [w, h] of the matched layout image
    bboxes,           \* the box list the crop loop iterates over
    idx,              \* enumerate index of the crop loop (0-based)
    new_box,          \* <<new_x1, new_y1, new_x2, new_y2>> of the last iteration
    output_dir,       \* files of the crop output directory
    segment_folders,  \* sequence of [page_id, listing]: os.listdir of each folder
    recognition,      \* the recognition capability: the line lists it may return
    folder_i,         \* position of the folder loop in segment_folders (1-based)
    files,            \* the filtered, sorted file list of the current folder
    file_i,           \* position of the recognition loop in files (1-based)
    preds,            \* text_lines the last recognition call returned
    full_text,        \* the report: sequence of sections [page_id, entries]
    output_txt,       \* content of the report file, None until written
    tmp,              \* the app's temp directories: idx -> [crops, report, removed]
    app_n,            \* len(pil_images) of the current script run
    app_idx,          \* position of the app's page loop (0-based)
    app_layout,       \* the layout result the current pipeline run obtained
    ocr_text,         \* the report the app read back for the current page
    runs              \* number of script runs started so far

vars == <<mode, pc, layout_data_len, doc_key, page_data_list, original_images,
          layout_dir, margin_x_ratio, margin_y_ratio, page_i, page_num,
          matched_layout_file, not_found, orig_size, layout_size, bboxes, idx,
          new_box, output_dir, segment_folders, recognition, folder_i, files,
          file_i, preds, full_text, output_txt, tmp, app_n, app_idx, app_layout,
          ocr_text, runs>>

pdfVars == <<layout_data_len, doc_key, page_data_list, original_images,
             layout_dir, page_i, page_num, matched_layout_file, not_found,
             layout_size>>
cropVars == <<margin_x_ratio, margin_y_ratio, orig_size, bboxes, idx, new_box,
              output_dir>>
ocrVars == <<segment_folders, recognition, folder_i, files, file_i, preds,
             full_text, output_txt>>
appVars == <<tmp, app_n, app_idx, app_layout, ocr_text, runs>>

-----------------------------------------------------------------------------
(* Bounds of the model *)

\* longest page_data_list explored
MaxPageEntries == 3
\* largest number of rendered pages of the document
MaxPages == 3
\* longest box list of the representative-box families
MaxBoxes == 3
\* largest coordinate numerator of the single-box grid (in half pixels)
MaxCoord == 9
\* most files in the folder ocr_segments lists
MaxFiles == 3
\* most text lines a recognition returns
MaxLines == 2
\* most Streamlit script runs
MaxRuns == 2

\* default margin ratio 0.05 = DefaultMarginNum / DefaultMarginDen
DefaultMarginNum == 5
DefaultMarginDen == 100

-----------------------------------------------------------------------------
(* Rational arithmetic standing for Python float arithmetic *)

R(n, d) == [n |-> n, d |-> d]
RInt(k) == R(k, 1)
RMul(a, b) == R(a.n * b.n, a.d * b.d)
RSub(a, b) == R(a.n * b.d - b.n * a.d, a.d * b.d)
RAdd(a, b) == R(a.n * b.d + b.n * a.d, a.d * b.d)
RLe(a, b) == a.n * b.d <= b.n * a.d
\* orig_w / layout_w
RDiv(a, b) == R(a, b)
\* max(0, v): Python returns the first argument unless a later one is greater
RMax0(v) == IF v.n > 0 THEN v ELSE RInt(0)
\* min(w, v): Python returns the first argument unless a later one is smaller
RMin(w, v) == IF v.n < w * v.d THEN v ELSE RInt(w)
\* int(v): truncation toward zero
PyInt(v) == IF v.n >= 0 THEN v.n \div v.d ELSE -((-v.n) \div v.d)

-----------------------------------------------------------------------------
(* Strings as character sequences *)

DigitChars == <<"0", "1", "2", "3", "4", "5", "6", "7", "8", "9">>
IsDigit(c) == \E k \in 1..10 : DigitChars[k] = c
DigitVal(c) == (CHOOSE k \in 1..10 : DigitChars[k] = c) - 1

RECURSIVE NatToStr(_)
NatToStr(n) == IF n < 10 THEN <<DigitChars[n + 1]>>
               ELSE NatToStr(n \div 10) \o <<DigitChars[(n % 10) + 1]>>
\* f"{n}" for an integer n
FormatInt(n) == IF n < 0 THEN <<"-">> \o NatToStr(-n) ELSE NatToStr(n)

\* int(s) for a non-empty digit string s
RECURSIVE ParseInt(_)
ParseInt(s) == IF Len(s) = 1 THEN DigitVal(s[1])
               ELSE 10 * ParseInt(SubSeq(s, 1, Len(s) - 1)) + DigitVal(s[Len(s)])

\* s[i:i+len(sub)] == sub
MatchAt(s, i, sub) == /\ i + Len(sub) - 1 <= Len(s)
                      /\ \A k \in 1..Len(sub) : s[i + k - 1] = sub[k]
\* sub in s
Contains(s, sub) == \E i \in 1..(Len(s) - Len(sub) + 1) : MatchAt(s, i, sub)
\* s.endswith(suf)
EndsWith(s, suf) == /\ Len(suf) <= Len(s)
                    /\ MatchAt(s, Len(s) - Len(suf) + 1, suf)

LayoutSuffix == <<"_", "l", "a", "y", "o", "u", "t", ".", "p", "n", "g">>
PngSuffix == <<".", "p", "n", "g">>
BoxPrefix == <<"b", "o", "x", "_">>

-----------------------------------------------------------------------------
(* Box geometry: the body of the two crop loops *)

\* denominator of the box coordinates explored (CoordDen = 2: half pixels)
CoordDen == 2

Size(w, h) == [w |-> w, h |-> h]

\* Faulty variant of RescaleBox: the upper bounds are not clamped to the page.
RescaleBoxNoClamp(box, ow, oh, lw, lh, mxr, myr) ==
    LET scale_x == RDiv(ow, lw)
        scale_y == RDiv(oh, lh)
        x1_scaled == RMul(box[1], scale_x)
        y1_scaled == RMul(box[2], scale_y)
        x2_scaled == RMul(box[3], scale_x)
        y2_scaled == RMul(box[4], scale_y)
        margin_x == RMul(mxr, RSub(x2_scaled, x1_scaled))
        margin_y == RMul(myr, RSub(y2_scaled, y1_scaled))
    IN  << PyInt(RMax0(RSub(x1_scaled, margin_x))),
           PyInt(RMax0(RSub(y1_scaled, margin_y))),
           PyInt(RAdd(x2_scaled, margin_x)),
           PyInt(RAdd(y2_scaled, margin_y)) >>

\* Faulty variant of RescaleBox: the upper bounds are rounded up, not truncated.
PyCeil(v) == -((-v.n) \div v.d)
RescaleBoxRoundUp(box, ow, oh, lw, lh, mxr, myr) ==
    LET scale_x == RDiv(ow, lw)
        scale_y == RDiv(oh, lh)
        x1_scaled == RMul(box[1], scale_x)
        y1_scaled == RMul(box[2], scale_y)
        x2_scaled == RMul(box[3], scale_x)
        y2_scaled == RMul(box[4], scale_y)
        margin_x == RMul(mxr, RSub(x2_scaled, x1_scaled))
        margin_y == RMul(myr, RSub(y2_scaled, y1_scaled))
    IN  << PyInt(RMax0(RSub(x1_scaled, margin_x))),
           PyInt(RMax0(RSub(y1_scaled, margin_y))),
           PyCeil(RMin(ow, RAdd(x2_scaled, margin_x))),
           PyCeil(RMin(oh, RAdd(y2_scaled, margin_y))) >>

\* crop_clean_segments_with_margin, lines 74-94: scale, margin, clamp, int()
RescaleBox(box, ow, oh, lw, lh, mxr, myr) ==
    LET scale_x == RDiv(ow, lw)
        scale_y == RDiv(oh, lh)
        x1_scaled == RMul(box[1], scale_x)
        y1_scaled == RMul(box[2], scale_y)
        x2_scaled == RMul(box[3], scale_x)
        y2_scaled == RMul(box[4], scale_y)
        width == RSub(x2_scaled, x1_scaled)
        height == RSub(y2_scaled, y1_scaled)
        margin_x == RMul(mxr, width)
        margin_y == RMul(myr, height)
        new_x1 == PyInt(RMax0(RSub(x1_scaled, margin_x)))
        new_y1 == PyInt(RMax0(RSub(y1_scaled, margin_y)))
        new_x2 == PyInt(RMin(ow, RAdd(x2_scaled, margin_x)))
        new_y2 == PyInt(RMin(oh, RAdd(y2_scaled, margin_y)))
    IN  <<new_x1, new_y1, new_x2, new_y2>>

\* crop_segments_from_image, lines 123-133: margin, clamp, int() (no scaling)
DirectBox(box, ow, oh, mr) ==
    LET x1 == box[1]
        y1 == box[2]
        x2 == box[3]
        y2 == box[4]
        width == RSub(x2, x1)
        height == RSub(y2, y1)
        margin_x == RMul(mr, width)
        margin_y == RMul(mr, height)
        new_x1 == PyInt(RMax0(RSub(x1, margin_x)))
        new_y1 == PyInt(RMax0(RSub(y1, margin_y)))
        new_x2 == PyInt(RMin(ow, RAdd(x2, margin_x)))
        new_y2 == PyInt(RMin(oh, RAdd(y2, margin_y)))
    IN  <<new_x1, new_y1, new_x2, new_y2>>

\* lines 96 and 135: new_x2 <= new_x1 or new_y2 <= new_y1
Degenerate(nb) == nb[3] <= nb[1] \/ nb[4] <= nb[2]

\* Faulty variant of PdfOutName: the ordinal counts the files written so far
\* for the page instead of the position of the box in the model's list.
PdfOutNameByCount(key, pnum, i, dir) ==
    LET written == Cardinality({f \in dir : f.page = pnum})
    IN  key \o <<"_", "p", "a", "g", "e", "_">> \o FormatInt(pnum)
            \o <<"_">> \o BoxPrefix \o FormatInt(written + 1) \o PngSuffix

\* line 100: f"{doc_key}_page_{page_num}_box_{idx + 1}.png"
\* (dir, the directory written to, is not read by the code)
PdfOutName(key, pnum, i, dir) ==
    key \o <<"_", "p", "a", "g", "e", "_">> \o FormatInt(pnum)
        \o <<"_">> \o BoxPrefix \o FormatInt(i + 1) \o PngSuffix

\* line 139: f"image_box_{idx + 1}.png"
ImageOutName(i) ==
    <<"i", "m", "a", "g", "e", "_">> \o BoxPrefix \o FormatInt(i + 1) \o PngSuffix

\* os.listdir: the names of the files of a directory
Names(dir) == {f.name : f \in dir}

\* cropped.save(out_path): the file replaces one of the same name.  A file
\* holds the crop bounds, the size of the image it was cropped from and the
\* page number of the entry that produced it (0 in direct mode).
SaveFile(dir, f) == {g \in dir : g.name # f.name} \cup {f}

-----------------------------------------------------------------------------
(* crop_clean_segments_with_margin: document mode *)

None == <<>>

\* line 54: [f for f in os.listdir(layout_image_dir) if f.endswith("_layout.png")]
RECURSIVE LayoutImages(_)
LayoutImages(dir) ==
    IF dir = <<>> THEN <<>>
    ELSE IF EndsWith(Head(dir).name, LayoutSuffix)
         THEN <<Head(dir).name>> \o LayoutImages(Tail(dir))
         ELSE LayoutImages(Tail(dir))

\* line 63: f"_{p}_" in fname or fname.endswith(f"_{p}_layout.png")
Matches(fname, p) ==
    \/ Contains(fname, <<"_">> \o FormatInt(p) \o <<"_">>)
    \/ EndsWith(fname, <<"_">> \o FormatInt(p) \o LayoutSuffix)

\* lines 61-65: the first file of the listing that matches, or None
RECURSIVE MatchLayoutFile(_, _)
MatchLayoutFile(names, p) ==
    IF names = <<>> THEN None
    ELSE IF Matches(Head(names), p) THEN Head(names)
         ELSE MatchLayoutFile(Tail(names), p)

\* position in the directory of the file Image.open(...) opens (lines 71-72)
LayoutFileIndex(dir, fname) ==
    (CHOOSE k \in 1..Len(dir) : dir[k].name = fname) 

\* original_images[page_num - 1]: Python list indexing, negative indexes count
\* from the end, anything else raises IndexError
PyIndexValid(n, k) == -n <= k /\ k < n
PyIndex(n, k) == IF k < 0 THEN n + k + 1 ELSE k + 1

\* Faulty variant of MissNext: a lookup miss ends the page loop (break).
MissBreak(i) == [pc |-> "done", page_i |-> i]

\* lines 67-69: print and continue with the next page entry
MissNext(i) == [pc |-> "pages", page_i |-> i + 1]

\* lines 43-50: load the results JSON, require exactly one document
LoadLayout ==
    /\ mode = "pdf" /\ pc = "start"
    /\ IF layout_data_len # 1
       THEN pc' = "ValueError" /\ page_i' = page_i
       ELSE pc' = "pages" /\ page_i' = 1
    /\ UNCHANGED <<mode, layout_data_len, doc_key, page_data_list, original_images,
                   layout_dir, page_num, matched_layout_file, not_found, layout_size>>
    /\ UNCHANGED cropVars /\ UNCHANGED ocrVars /\ UNCHANGED appVars

\* lines 56-75: one iteration of the page loop up to the box loop
NextPage ==
    /\ mode = "pdf" /\ pc = "pages"
    /\ IF page_i > Len(page_data_list)
       THEN /\ pc' = "done"
            /\ UNCHANGED <<page_i, page_num, matched_layout_file, not_found,
                           layout_size, orig_size, bboxes, idx>>
       ELSE LET page_data == page_data_list[page_i]
                pn == page_data.page
                n == Len(original_images)
            IN  /\ page_num' = pn
                /\ IF ~PyIndexValid(n, pn - 1)
                   THEN /\ pc' = "IndexError"
                        /\ UNCHANGED <<page_i, matched_layout_file, not_found,
                                       layout_size, orig_size, bboxes, idx>>
                   ELSE LET m == MatchLayoutFile(LayoutImages(layout_dir), pn - 1)
                        IN  /\ orig_size' = original_images[PyIndex(n, pn - 1)]
                            /\ matched_layout_file' = m
                            /\ IF m = None
                               THEN /\ not_found' = not_found \cup {pn - 1}
                                    /\ pc' = MissNext(page_i).pc
                                    /\ page_i' = MissNext(page_i).page_i
                                    /\ UNCHANGED <<layout_size, bboxes, idx>>
                               ELSE /\ layout_size' =
                                          layout_dir[LayoutFileIndex(layout_dir, m)].size
                                    /\ bboxes' = page_data.bboxes
                                    /\ idx' = 0
                                    /\ pc' = "boxes"
                                    /\ UNCHANGED <<page_i, not_found>>
    /\ UNCHANGED <<mode, layout_data_len, doc_key, page_data_list, original_images,
                   layout_dir, margin_x_ratio, margin_y_ratio, new_box, output_dir>>
    /\ UNCHANGED ocrVars /\ UNCHANGED appVars

\* lines 77-103: one iteration of the box loop of the current page
CropCleanBox ==
    /\ mode = "pdf" /\ pc = "boxes"
    /\ IF idx >= Len(bboxes)
       THEN /\ pc' = "pages" /\ page_i' = page_i + 1
            /\ UNCHANGED <<idx, new_box, output_dir>>
       ELSE LET nb == RescaleBox(bboxes[idx + 1], orig_size.w, orig_size.h,
                                 layout_size.w, layout_size.h,
                                 margin_x_ratio, margin_y_ratio)
            IN  /\ new_box' = nb
                /\ idx' = idx + 1
                /\ output_dir' =
                     IF Degenerate(nb) THEN output_dir
                     ELSE SaveFile(output_dir,
                                   [name |-> PdfOutName(doc_key, page_num, idx, output_dir),
                                    box |-> nb, size |-> orig_size, page |-> page_num])
                /\ UNCHANGED <<pc, page_i>>
    /\ UNCHANGED <<mode, layout_data_len, doc_key, page_data_list, original_images,
                   layout_dir, page_num, matched_layout_file, not_found, layout_size,
                   margin_x_ratio, margin_y_ratio, orig_size, bboxes>>
    /\ UNCHANGED ocrVars /\ UNCHANGED appVars

-----------------------------------------------------------------------------
(* crop_segments_from_image: direct mode *)

\* lines 122-142: one iteration of the box loop
CropImageBox ==
    /\ mode \in {"image", "app"} /\ pc = "crop"
    /\ IF idx >= Len(bboxes)
       THEN /\ pc' = "cropped"
            /\ UNCHANGED <<idx, new_box, output_dir>>
       ELSE LET nb == DirectBox(bboxes[idx + 1], orig_size.w, orig_size.h,
                                margin_x_ratio)
            IN  /\ new_box' = nb
                /\ idx' = idx + 1
                /\ pc' = pc
                /\ output_dir' =
                     IF Degenerate(nb) THEN output_dir
                     ELSE SaveFile(output_dir,
                                   [name |-> ImageOutName(idx), box |-> nb,
                                    size |-> orig_size, page |-> 0])
    /\ UNCHANGED <<mode, margin_x_ratio, margin_y_ratio, orig_size, bboxes>>
    /\ UNCHANGED pdfVars /\ UNCHANGED ocrVars /\ UNCHANGED appVars

-----------------------------------------------------------------------------
(* Inputs explored for the crop functions *)

Box(a, b, c, d) == <<R(a, CoordDen), R(b, CoordDen), R(c, CoordDen), R(d, CoordDen)>>

ZeroRatio == RInt(0)
DefaultRatio == R(DefaultMarginNum, DefaultMarginDen)
MarginPairs == {<<ZeroRatio, ZeroRatio>>, <<DefaultRatio, DefaultRatio>>,
                <<DefaultRatio, ZeroRatio>>}

\* the page render and the layout images of the geometry families
PageSize == Size(4, 2)
LayoutSizes == {Size(4, 2), Size(2, 1), Size(8, 3)}

\* single boxes: one axis runs over the whole grid (boxes inside, touching,
\* crossing and outside the page border, inverted and empty ones), the other
\* over three spans (inside, crossing, empty)
Coords == -3..MaxCoord
Spans == {<<1, 3>>, <<-2, 9>>, <<2, 2>>}
GridBoxes == {Box(a, sp[1], b, sp[2]) : a \in Coords, b \in Coords, sp \in Spans}
             \cup {Box(sp[1], a, sp[2], b) : a \in Coords, b \in Coords, sp \in Spans}

\* box lists: inside the page (0.5, 0.5, 2.5, 1.5), zero width, crossing every
\* border, narrower than a pixel
InsideBox == <<R(1, 2), R(1, 2), R(5, 2), R(3, 2)>>
RepBoxes == {InsideBox, Box(2, 0, 2, 4), Box(-2, -2, 9, 9), Box(2, 1, 3, 2)}
RECURSIVE SeqsUpTo(_, _)
SeqsUpTo(S, n) == IF n = 0 THEN {<<>>}
                  ELSE LET shorter == SeqsUpTo(S, n - 1)
                       IN  shorter \cup {Append(q, x) : q \in shorter, x \in S}
BoxLists == SeqsUpTo(RepBoxes, MaxBoxes)

\* document identifiers: a plain one, and one that ends in _<digit>
DocKeys == {<<"d">>, <<"d", "_", "1">>}

\* the name surya_layout gives the layout image of page index q
LayoutName(key, q) == key \o <<"_">> \o FormatInt(q) \o LayoutSuffix
ResultsJson == <<"r", "e", "s", "u", "l", "t", "s", ".", "j", "s", "o", "n">>

RECURSIVE Ascending(_)
Ascending(S) == IF S = {} THEN <<>>
                ELSE LET m == CHOOSE x \in S : \A y \in S : x <= y
                     IN  <<m>> \o Ascending(S \ {m})
Reverse(q) == [k \in 1..Len(q) |-> q[Len(q) + 1 - k]]

\* a layout directory holding results.json and one layout image for each page
\* index of `present`, listed in ascending or in descending order
LayoutDirOf(key, present, descending) ==
    LET asc == <<[name |-> ResultsJson, size |-> Size(0, 0)]>> \o
               [k \in 1..Cardinality(present) |->
                   [name |-> LayoutName(key, Ascending(present)[k]),
                    size |-> Size(2 + Ascending(present)[k], 1 + Ascending(present)[k])]]
    IN  IF descending THEN Reverse(asc) ELSE asc

PageEntry(n, boxes) == [page |-> n, bboxes |-> boxes]
PageNums == 0..(MaxPages + 1)
\* page entries come in document order: the page numbers never decrease
PageNumLists == {q \in SeqsUpTo(PageNums, MaxPageEntries) :
                    /\ q # <<>>
                    /\ \A k \in 1..(Len(q) - 1) : q[k] <= q[k + 1]}

IdleOcr == /\ segment_folders = <<>> /\ recognition = {} /\ folder_i = 0
           /\ files = <<>> /\ file_i = 0 /\ preds = <<>> /\ full_text = <<>>
           /\ output_txt = None
IdleApp == /\ tmp = <<>> /\ app_n = 0 /\ app_idx = 0 /\ app_layout = <<>>
           /\ ocr_text = None /\ runs = 0
IdlePdf == /\ layout_data_len = 0 /\ doc_key = <<>> /\ page_data_list = <<>>
           /\ original_images = <<>> /\ layout_dir = <<>> /\ page_i = 0
           /\ page_num = 0 /\ matched_layout_file = None /\ not_found = {}
           /\ layout_size = Size(0, 0)
PdfStart == /\ mode = "pdf" /\ pc = "start" /\ page_i = 0 /\ page_num = 0
            /\ matched_layout_file = None /\ not_found = {}
            /\ layout_size = Size(0, 0) /\ orig_size = Size(0, 0)
            /\ bboxes = <<>> /\ idx = 0 /\ new_box = <<0, 0, 0, 0>>
            /\ output_dir = {}

\* documents of MaxPages pages, any page numbers in the entries (in document
\* order), any subset of the layout images present
InitPdfPages ==
    /\ PdfStart
    /\ layout_data_len \in {0, 1, 2}
    /\ doc_key \in DocKeys
    /\ \E nums \in PageNumLists :
          page_data_list = [k \in 1..Len(nums) |-> PageEntry(nums[k], <<InsideBox>>)]
    /\ original_images = [k \in 1..MaxPages |-> PageSize]
    /\ \E present \in SUBSET (0..(MaxPages - 1)), descending \in BOOLEAN :
          layout_dir = LayoutDirOf(doc_key, present, descending)
    /\ margin_x_ratio = DefaultRatio /\ margin_y_ratio = DefaultRatio
    /\ layout_data_len # 1 => page_data_list = <<PageEntry(1, <<InsideBox>>)>>
                              /\ layout_dir = LayoutDirOf(doc_key, {0}, FALSE)
                              /\ doc_key = <<"d">>

\* a one-page document with its layout image and one box of the grid
InitPdfGrid ==
    /\ PdfStart
    /\ layout_data_len = 1
    /\ doc_key = <<"d">>
    /\ \E b \in GridBoxes : page_data_list = <<PageEntry(1, <<b>>)>>
    /\ original_images = <<PageSize>>
    /\ \E ls \in LayoutSizes :
          layout_dir = <<[name |-> LayoutName(doc_key, 0), size |-> ls]>>
    /\ \E m \in MarginPairs : margin_x_ratio = m[1] /\ margin_y_ratio = m[2]

\* a one-page document with its layout image and a list of boxes
InitPdfLists ==
    /\ PdfStart
    /\ layout_data_len = 1
    /\ doc_key = <<"d">>
    /\ \E bl \in BoxLists : page_data_list = <<PageEntry(1, bl)>>
    /\ original_images = <<PageSize>>
    /\ \E ls \in {Size(4, 2), Size(2, 1)} :
          layout_dir = <<[name |-> LayoutName(doc_key, 0), size |-> ls]>>
    /\ margin_x_ratio = DefaultRatio /\ margin_y_ratio = DefaultRatio

\* crop_segments_from_image called on one image with a layout result
InitImage ==
    /\ mode = "image" /\ pc = "crop"
    /\ IdlePdf
    /\ orig_size = PageSize
    /\ bboxes \in BoxLists \cup {<<b>> : b \in GridBoxes}
    /\ \E m \in {ZeroRatio, DefaultRatio} : margin_x_ratio = m /\ margin_y_ratio = m
    /\ idx = 0 /\ new_box = <<0, 0, 0, 0>> /\ output_dir = {}

InitCrop == (InitPdfPages \/ InitPdfGrid \/ InitPdfLists \/ InitImage)
            /\ IdleOcr /\ IdleApp

NextCrop == LoadLayout \/ NextPage \/ CropCleanBox \/ CropImageBox

SpecCrop == InitCrop /\ [][NextCrop]_vars

-----------------------------------------------------------------------------
(* ocr_segments *)

\* line 155: [f for f in os.listdir(folder_path) if f.endswith(".png")]
RECURSIVE PngFiles(_)
PngFiles(names) ==
    IF names = <<>> THEN <<>>
    ELSE IF EndsWith(Head(names), PngSuffix)
         THEN <<Head(names)>> \o PngFiles(Tail(names))
         ELSE PngFiles(Tail(names))

\* the sort key: an integer, or float('inf')
Inf == [inf |-> TRUE, n |-> 0]
Num(k) == [inf |-> FALSE, n |-> k]
\* a < b on sort keys (int < inf; inf < inf is false)
KeyLess(a, b) == IF a.inf THEN FALSE ELSE (b.inf \/ a.n < b.n)

\* end of the greedy run of digits \d+ that starts at position j
RECURSIVE DigitRunEnd(_, _)
DigitRunEnd(s, j) == IF j < Len(s) /\ IsDigit(s[j + 1]) THEN DigitRunEnd(s, j + 1)
                     ELSE j

\* Faulty variant of ExtractBoxNumber: the pattern is box_(\d), one digit.
ExtractFirstDigit(fname) ==
    LET hits == {i \in 1..Len(fname) :
                    /\ MatchAt(fname, i, BoxPrefix)
                    /\ i + 4 <= Len(fname)
                    /\ IsDigit(fname[i + 4])}
    IN  IF hits = {} THEN Inf
        ELSE LET i == CHOOSE x \in hits : \A y \in hits : x <= y
             IN  Num(DigitVal(fname[i + 4]))

\* lines 157-159: re.search(r"box_(\d+)", fname): the leftmost match, its
\* digits taken greedily; int of the group, or float('inf') without a match
ExtractBoxNumber(fname) ==
    LET hits == {i \in 1..Len(fname) :
                    /\ MatchAt(fname, i, BoxPrefix)
                    /\ i + 4 <= Len(fname)
                    /\ IsDigit(fname[i + 4])}
    IN  IF hits = {} THEN Inf
        ELSE LET i == CHOOSE x \in hits : \A y \in hits : x <= y
             IN  Num(ParseInt(SubSeq(fname, i + 4, DigitRunEnd(fname, i + 4))))

\* insertion of f behind every element whose key is not greater than its own
RECURSIVE InsertByKey(_, _)
InsertByKey(sorted, f) ==
    IF sorted = <<>> THEN <<f>>
    ELSE IF KeyLess(ExtractBoxNumber(f), ExtractBoxNumber(Head(sorted)))
         THEN <<f>> \o sorted
         ELSE <<Head(sorted)>> \o InsertByKey(Tail(sorted), f)

\* line 161: files.sort(key=extract_box_number), a stable sort
RECURSIVE SortFiles(_)
SortFiles(names) ==
    IF names = <<>> THEN <<>>
    ELSE InsertByKey(SortFiles(SubSeq(names, 1, Len(names) - 1)), names[Len(names)])

Whitespace == {" ", "\n", "\t"}
RECURSIVE LStrip(_)
LStrip(t) == IF t # <<>> /\ Head(t) \in Whitespace THEN LStrip(Tail(t)) ELSE t
RECURSIVE RStrip(_)
RStrip(t) == IF t # <<>> /\ t[Len(t)] \in Whitespace
             THEN RStrip(SubSeq(t, 1, Len(t) - 1)) ELSE t
\* str.strip()
Strip(t) == RStrip(LStrip(t))

Sentinel == <<"<", "N", "o", " ", "T", "e", "x", "t", " ",
              "D", "e", "t", "e", "c", "t", "e", "d", ">">>

\* lines 170-173: segment_text += line.text + "\n" over the text lines
RECURSIVE ConcatLines(_)
ConcatLines(lines) ==
    IF lines = <<>> THEN <<>>
    ELSE Head(lines) \o <<"\n">> \o ConcatLines(Tail(lines))

\* Faulty variant of EntryText: a blank text is written as it is.
EntryTextNoSentinel(lines) == Strip(ConcatLines(lines))

\* lines 170-178: the text written under the [fname] sub-header
EntryText(lines) ==
    LET segment_text == ConcatLines(lines)
        replaced == IF Strip(segment_text) = <<>> THEN Sentinel ELSE segment_text
    IN  Strip(replaced)

\* lines 152-163 and 180-182: next folder (list, filter, sort, header), or
\* the report is written when the folders are exhausted
OcrFolder ==
    /\ mode \in {"ocr", "app"} /\ pc = "ocr_folders"
    /\ IF folder_i > Len(segment_folders)
       THEN /\ output_txt' = full_text
            /\ pc' = "ocr_done"
            /\ UNCHANGED <<files, file_i, full_text>>
       ELSE /\ files' = SortFiles(PngFiles(segment_folders[folder_i].listing))
            /\ full_text' = Append(full_text,
                                   [page_id |-> segment_folders[folder_i].page_id,
                                    entries |-> <<>>])
            /\ file_i' = 1
            /\ pc' = "ocr_files"
            /\ UNCHANGED output_txt
    /\ UNCHANGED <<mode, segment_folders, recognition, folder_i, preds>>
    /\ UNCHANGED pdfVars /\ UNCHANGED cropVars /\ UNCHANGED appVars

\* lines 165-178: one iteration of the recognition loop
OcrFile ==
    /\ mode \in {"ocr", "app"} /\ pc = "ocr_files"
    /\ IF file_i > Len(files)
       THEN /\ folder_i' = folder_i + 1
            /\ pc' = "ocr_folders"
            /\ UNCHANGED <<file_i, preds, full_text>>
       ELSE \E lines \in recognition :
               /\ preds' = lines
               /\ full_text' =
                    [full_text EXCEPT ![Len(full_text)].entries =
                        Append(@, [fname |-> files[file_i], text |-> EntryText(lines)])]
               /\ file_i' = file_i + 1
               /\ UNCHANGED <<folder_i, pc>>
    /\ UNCHANGED <<mode, segment_folders, recognition, files, output_txt>>
    /\ UNCHANGED pdfVars /\ UNCHANGED cropVars /\ UNCHANGED appVars

-----------------------------------------------------------------------------
(* Inputs explored for ocr_segments *)

NotesPng == <<"n", "o", "t", "e", "s", ".", "p", "n", "g">>
BoxTxt == <<"b", "o", "x", "_", "1", ".", "t", "x", "t">>
\* names the crop functions write (two pages of document d land in the same
\* output directory), a .png without a box number, and a file that is no .png
NamePool == {ImageOutName(0), ImageOutName(1), ImageOutName(9),
             PdfOutName(<<"d">>, 1, 0, {}), PdfOutName(<<"d">>, 2, 0, {}),
             NotesPng, BoxTxt}

\* every ordering of every subset of S with at most n elements
RECURSIVE Listings(_, _)
Listings(S, n) ==
    IF n = 0 THEN {<<>>}
    ELSE LET shorter == Listings(S, n - 1)
         IN  shorter \cup {Append(q, x) : q \in shorter, x \in S}
DistinctListings(S, n) ==
    {q \in Listings(S, n) : \A i \in 1..Len(q), j \in 1..Len(q) : q[i] = q[j] => i = j}

CropsId == <<"c", "r", "o", "p", "s">>
Page2Id == <<"p", "2">>

\* texts of single lines, and the line lists a recognition may return
LineTexts == {<<>>, <<" ">>, <<"a">>, <<" ", "a">>, <<"a", "\n">>}
LineLists == SeqsUpTo(LineTexts, MaxLines)
NarrowRecognition == {<<>>, <<<<"a">>>>}

OcrStart == /\ mode = "ocr" /\ pc = "ocr_folders" /\ folder_i = 1
            /\ files = <<>> /\ file_i = 0 /\ preds = <<>> /\ full_text = <<>>
            /\ output_txt = None

\* one folder with any listing of pool names, optionally followed by a
\* second folder
InitOcrListings ==
    /\ OcrStart
    /\ recognition = NarrowRecognition
    /\ \E q \in DistinctListings(NamePool, MaxFiles), second \in BOOLEAN :
          segment_folders =
              <<[page_id |-> CropsId, listing |-> q]>> \o
              (IF second THEN <<[page_id |-> Page2Id,
                                 listing |-> <<ImageOutName(1), ImageOutName(0)>>]>>
               ELSE <<>>)

\* one folder with one segment, any recognition output
InitOcrTexts ==
    /\ OcrStart
    /\ recognition = LineLists
    /\ segment_folders = <<[page_id |-> CropsId, listing |-> <<ImageOutName(0)>>]>>

IdleCrop == /\ margin_x_ratio = DefaultRatio /\ margin_y_ratio = DefaultRatio
            /\ orig_size = Size(0, 0) /\ bboxes = <<>> /\ idx = 0
            /\ new_box = <<0, 0, 0, 0>> /\ output_dir = {}

InitOcr == (InitOcrListings \/ InitOcrTexts) /\ IdlePdf /\ IdleCrop /\ IdleApp

NextOcr == OcrFolder \/ OcrFile

SpecOcr == InitOcr /\ [][NextOcr]_vars

-----------------------------------------------------------------------------
(* The "Run Full Pipeline" block of the Streamlit app and                  *)
(* run_layout_on_image_file                                                *)

\* numbers of page images a script run may show
AppPageCounts == {1, 2}
\* layout results run_layout_on_image may return
AppLayouts == {<<>>, <<InsideBox>>, <<InsideBox, Box(2, 0, 2, 4), InsideBox>>}

EmptyDir == [crops |-> {}, report |-> None, removed |-> {}]

\* Faulty variant of CleanOutputDir: the directory of an earlier run is kept.
KeepOutputDir(d) == [crops |-> d.crops, report |-> d.report, removed |-> {}]

\* streamlit_app.py lines 311-313: rmtree the output directory if it exists,
\* then makedirs (removed remembers what rmtree deleted)
CleanOutputDir(d) == [crops |-> {}, report |-> None, removed |-> d.crops]

\* the orders in which os.listdir may return the files of a directory
ListingsOf(S) == {q \in DistinctListings(S, Cardinality(S)) : Len(q) = Cardinality(S)}

\* a script run with the Run Full Pipeline button pressed: pil_images is built
AppRun ==
    /\ mode = "app" /\ pc = "idle"
    /\ runs < MaxRuns
    /\ runs' = runs + 1
    /\ app_n' \in AppPageCounts
    /\ app_idx' = 0
    /\ pc' = "app_page"
    /\ UNCHANGED <<mode, tmp, app_layout, ocr_text>>
    /\ UNCHANGED pdfVars /\ UNCHANGED cropVars /\ UNCHANGED ocrVars

\* streamlit_app.py lines 298-316 and pipeline.py lines 192-196, 119-120: the
\* page loop cleans the page's output directory, run_layout_on_image_file
\* obtains the layout result and crop_segments_from_image starts on crops/
AppPage ==
    /\ mode = "app" /\ pc = "app_page"
    /\ IF app_idx >= app_n
       THEN /\ pc' = "idle"
            /\ UNCHANGED <<tmp, app_layout, bboxes, idx, output_dir, orig_size>>
       ELSE /\ tmp' = [tmp EXCEPT ![app_idx] = CleanOutputDir(@)]
            /\ app_layout' \in AppLayouts
            /\ bboxes' = app_layout'
            /\ idx' = 0
            /\ orig_size' = PageSize
            /\ output_dir' = tmp'[app_idx].crops
            /\ pc' = "crop"
    /\ UNCHANGED <<mode, app_n, app_idx, ocr_text, runs, margin_x_ratio,
                   margin_y_ratio, new_box>>
    /\ UNCHANGED pdfVars /\ UNCHANGED ocrVars

\* pipeline.py lines 198-199: ocr_segments([crops_dir], ...) is called; the
\* listing of crops/ comes in any order
AppOcr ==
    /\ mode = "app" /\ pc = "cropped"
    /\ \E q \in ListingsOf(Names(output_dir)) :
          segment_folders' = <<[page_id |-> CropsId, listing |-> q]>>
    /\ folder_i' = 1
    /\ files' = <<>> /\ file_i' = 0 /\ preds' = <<>>
    /\ full_text' = <<>>
    /\ output_txt' = None
    /\ pc' = "ocr_folders"
    /\ UNCHANGED <<mode, recognition>>
    /\ UNCHANGED pdfVars /\ UNCHANGED cropVars /\ UNCHANGED appVars

\* streamlit_app.py lines 318-320: the report file is read back; the page's
\* directory now holds the crops and the report of this run
AppRead ==
    /\ mode = "app" /\ pc = "ocr_done"
    /\ ocr_text' = output_txt
    /\ tmp' = [tmp EXCEPT ![app_idx] =
                  [crops |-> output_dir, report |-> output_txt, removed |-> @.removed]]
    /\ app_idx' = app_idx + 1
    /\ pc' = "app_page"
    /\ UNCHANGED <<mode, app_n, app_layout, runs>>
    /\ UNCHANGED pdfVars /\ UNCHANGED cropVars /\ UNCHANGED ocrVars

InitApp ==
    /\ mode = "app" /\ pc = "idle"
    /\ IdlePdf /\ IdleCrop
    /\ segment_folders = <<>> /\ recognition = NarrowRecognition /\ folder_i = 0
    /\ files = <<>> /\ file_i = 0 /\ preds = <<>> /\ full_text = <<>>
    /\ output_txt = None
    /\ tmp = [i \in 0..1 |-> EmptyDir]
    /\ app_n = 0 /\ app_idx = 0 /\ app_layout = <<>> /\ ocr_text = None /\ runs = 0

NextApp == AppRun \/ AppPage \/ CropImageBox \/ AppOcr \/ OcrFolder \/ OcrFile \/ AppRead

SpecApp == InitApp /\ [][NextApp]_vars

-----------------------------------------------------------------------------
(* Properties of the crop functions (checked under SpecCrop) *)

\* C1: every segment file written by either crop function has integer bounds
\* with 0 <= x1 < x2 <= page_width and 0 <= y1 < y2 <= page_height of the
\* image it was cropped from.
C1_SegmentWithinPage ==
    \A f \in output_dir :
        /\ 0 <= f.box[1] /\ f.box[1] < f.box[3] /\ f.box[3] <= f.size.w
        /\ 0 <= f.box[2] /\ f.box[2] < f.box[4] /\ f.box[4] <= f.size.h

\* a box crossing the left and right page border, scaled by 2, was written
C1_Witness ==
    /\ mode = "pdf" /\ pc = "boxes" /\ idx = 1
    /\ layout_size = Size(2, 1) /\ margin_x_ratio = DefaultRatio
    /\ bboxes[1][1].n < 0
    /\ RLe(RInt(layout_size.w), bboxes[1][3])
    /\ \E f \in output_dir : f.box = new_box /\ f.box[1] = 0 /\ f.box[3] = orig_size.w

\* the last iteration of a crop loop ran with scale 1 and margin ratio 0
UnitScaleNoMargin ==
    /\ margin_x_ratio = ZeroRatio /\ margin_y_ratio = ZeroRatio
    /\ idx >= 1
    /\ \/ mode = "pdf" /\ pc = "boxes" /\ layout_size = orig_size
       \/ mode = "image" /\ pc = "crop"
TruncBox(b) == <<PyInt(b[1]), PyInt(b[2]), PyInt(b[3]), PyInt(b[4])>>
WithinPage(b, sz) == /\ b[1].n >= 0 /\ b[2].n >= 0
                     /\ RLe(b[3], RInt(sz.w)) /\ RLe(b[4], RInt(sz.h))

\* C2 as stated: for all boxes, with scale 1 and margin ratio 0 the rescaled
\* box equals the input box truncated to integers.
C2_AllBoxesTruncated ==
    UnitScaleNoMargin => new_box = TruncBox(bboxes[idx])

\* C2 amended: for all boxes with x1 >= 0, y1 >= 0, x2 <= page width and
\* y2 <= page height, with scale 1 and margin ratio 0 the rescaled box equals
\* the input box truncated to integers.
C2_BoxesWithinPageTruncated ==
    (UnitScaleNoMargin /\ WithinPage(bboxes[idx], orig_size))
        => new_box = TruncBox(bboxes[idx])

\* a box inside the page with a fractional coordinate was rescaled in
\* document mode
C2_Witness ==
    /\ UnitScaleNoMargin /\ mode = "pdf"
    /\ WithinPage(bboxes[idx], orig_size)
    /\ bboxes[idx][3].n % bboxes[idx][3].d # 0
    /\ new_box[1] < new_box[3] /\ new_box[2] < new_box[4]

HasArtifact(p) == \E k \in 1..Len(layout_dir) : layout_dir[k].name = LayoutName(doc_key, p)

\* C3: in a directory holding one file <document-id>_<q>_layout.png per page
\* index q, the matching loop selects for page index p the artifact of p,
\* and reports "not found" exactly when no artifact encodes p.
C3_MatchesOwnPage ==
    mode = "pdf" =>
        /\ pc = "boxes" => matched_layout_file = LayoutName(doc_key, page_num - 1)
        /\ \A p \in not_found : ~HasArtifact(p)
        /\ \A i \in 1..Len(page_data_list) :
              (i < page_i /\ ~HasArtifact(page_data_list[i].page - 1))
                  => (page_data_list[i].page - 1) \in not_found

C7_OnlyStructuralErrorsStop ==
    (mode = "pdf" /\ layout_data_len = 1) => pc \notin {"IndexError", "ValueError"}

\* names of the persisted segments as the interface defines them
SegmentName(key, n, k) ==
    key \o <<"_", "p", "a", "g", "e", "_">> \o FormatInt(n)
        \o <<"_", "b", "o", "x", "_">> \o FormatInt(k) \o <<".", "p", "n", "g">>
ImageSegmentName(k) ==
    <<"i", "m", "a", "g", "e", "_", "b", "o", "x", "_">> \o FormatInt(k)
        \o <<".", "p", "n", "g">>

\* the size of the layout image matched to a page entry
EntryLayoutSize(e) ==
    layout_dir[LayoutFileIndex(layout_dir,
                               MatchLayoutFile(LayoutImages(layout_dir), e.page - 1))].size
\* positions (1-based) of the boxes of a page entry with x1' < x2' and y1' < y2'
PdfPositions(e) ==
    {k \in 1..Len(e.bboxes) :
        LET sz == original_images[PyIndex(Len(original_images), e.page - 1)]
            nb == RescaleBox(e.bboxes[k], sz.w, sz.h,
                             EntryLayoutSize(e).w, EntryLayoutSize(e).h,
                             margin_x_ratio, margin_y_ratio)
        IN  nb[1] < nb[3] /\ nb[2] < nb[4]}
ImagePositions ==
    {k \in 1..Len(bboxes) :
        LET nb == DirectBox(bboxes[k], orig_size.w, orig_size.h, margin_x_ratio)
        IN  nb[1] < nb[3] /\ nb[2] < nb[4]}

\* C8: the segment files written for a page are exactly those named by the
\* 1-based position of each non-degenerate box in the box list; a
\* degenerate box writes nothing and shifts no ordinal.
C8_FilesAreNonDegeneratePositions ==
    /\ (mode = "pdf" /\ pc = "done") =>
          Names(output_dir) =
             UNION {{SegmentName(doc_key, page_data_list[i].page, k) :
                        k \in PdfPositions(page_data_list[i])} :
                    i \in {j \in 1..Len(page_data_list) :
                              (page_data_list[j].page - 1) \notin not_found}}
    /\ (mode = "image" /\ pc = "cropped") =>
          Names(output_dir) = {ImageSegmentName(k) : k \in ImagePositions}

\* a page with a zero-width box between two valid ones: files 1 and 3 only
C8_Witness ==
    /\ mode = "pdf" /\ pc = "done"
    /\ Len(page_data_list) = 1
    /\ page_data_list[1].bboxes = <<InsideBox, Box(2, 0, 2, 4), InsideBox>>
    /\ Names(output_dir) = {SegmentName(doc_key, 1, 1), SegmentName(doc_key, 1, 3)}

-----------------------------------------------------------------------------
(* Properties of ocr_segments (checked under SpecOcr) *)

\* every reordering of a listing
Reorderings(q) ==
    {[k \in 1..Len(q) |-> q[f[k]]] :
        f \in {g \in [1..Len(q) -> 1..Len(q)] :
                  \A i \in 1..Len(q), j \in 1..Len(q) : g[i] = g[j] => i = j}}

\* C4: the order in which the artifacts of a folder are recognized and
\* reported is the same for every permutation of the directory listing.
C4_OrderStableUnderShuffle ==
    (mode = "ocr" /\ pc = "ocr_files") =>
        \A q \in Reorderings(segment_folders[folder_i].listing) :
            SortFiles(PngFiles(q)) = files

\* the ordinal each pool name carries after "box_", 0 for none
PoolOrdinal(name) ==
    CASE name = ImageSegmentName(1) -> 1
      [] name = ImageSegmentName(2) -> 2
      [] name = ImageSegmentName(10) -> 10
      [] name = SegmentName(<<"d">>, 1, 1) -> 1
      [] name = SegmentName(<<"d">>, 2, 1) -> 1
      [] OTHER -> 0
Unnumbered(name) == name = NotesPng

\* the [artifact-name] entries of the section being written
CurrentEntries == full_text[Len(full_text)].entries

\* C5: within a folder the artifacts are recognized and reported in
\* non-decreasing numeric order of the ordinal after "box_" (box_2 before
\* box_10), and every artifact without a box number comes after every
\* artifact with one.
C5_NumericOrderUnnumberedLast ==
    (mode = "ocr" /\ pc = "ocr_files") =>
        /\ \A i \in 1..Len(files), j \in 1..Len(files) :
              i < j =>
                 /\ ~Unnumbered(files[j]) =>
                       /\ ~Unnumbered(files[i])
                       /\ PoolOrdinal(files[i]) <= PoolOrdinal(files[j])
        /\ \A k \in 1..Len(CurrentEntries) : CurrentEntries[k].fname = files[k]
        /\ Len(CurrentEntries) = file_i - 1

\* box_2, box_10 and an unnumbered file were listed in another order and
\* all three were recognized
C5_Witness ==
    /\ mode = "ocr" /\ pc = "ocr_files"
    /\ segment_folders[folder_i].listing =
          <<NotesPng, ImageSegmentName(10), ImageSegmentName(2)>>
    /\ Len(CurrentEntries) = 3
    /\ CurrentEntries[1].fname = ImageSegmentName(2)
    /\ CurrentEntries[3].fname = NotesPng

\* "\n".join(lines)
RECURSIVE JoinLines(_)
JoinLines(lines) ==
    IF lines = <<>> THEN <<>>
    ELSE IF Len(lines) = 1 THEN lines[1]
         ELSE Head(lines) \o <<"\n">> \o JoinLines(Tail(lines))
HasText(t) == \E k \in 1..Len(t) : t[k] \notin Whitespace

\* C9: the text under each [artifact-name] sub-header is the newline-joined
\* line texts stripped of outer whitespace when they hold a non-whitespace
\* character, and exactly <No Text Detected> otherwise; no entry is empty.
C9_BlankTextReplaced ==
    (mode = "ocr" /\ pc = "ocr_files" /\ file_i > 1) =>
        /\ CurrentEntries[file_i - 1].text =
              IF HasText(JoinLines(preds)) THEN Strip(JoinLines(preds))
              ELSE <<"<", "N", "o", " ", "T", "e", "x", "t", " ",
                     "D", "e", "t", "e", "c", "t", "e", "d", ">">>
        /\ \A s \in 1..Len(full_text) : \A k \in 1..Len(full_text[s].entries) :
              full_text[s].entries[k].text # <<>>

\* recognition returned two whitespace-only lines and the sentinel was written
C9_Witness ==
    /\ mode = "ocr" /\ pc = "ocr_files" /\ file_i > 1
    /\ preds = << <<" ">>, <<>> >>
    /\ CurrentEntries[file_i - 1].text = Sentinel

-----------------------------------------------------------------------------
(* Properties of the app's full-pipeline runs (checked under SpecApp) *)

\* positions (1-based) of the boxes of a layout result that are not
\* degenerate on the page image with the default margin
AppPositions(boxes) ==
    {k \in 1..Len(boxes) :
        LET nb == DirectBox(boxes[k], PageSize.w, PageSize.h, DefaultRatio)
        IN  nb[1] < nb[3] /\ nb[2] < nb[4]}

\* C10: after any sequence of full-pipeline runs that reuse a page's output
\* directory, the report read back for a page has exactly one section and
\* exactly one entry per non-degenerate box of the layout result of the
\* current run, none for a crop file of an earlier run.
C10_NoStaleSegments ==
    (mode = "app" /\ pc = "app_page" /\ app_idx >= 1) =>
        /\ Len(ocr_text) = 1
        /\ {ocr_text[1].entries[k].fname : k \in 1..Len(ocr_text[1].entries)}
              = {ImageSegmentName(k) : k \in AppPositions(app_layout)}
        /\ Len(ocr_text[1].entries) = Cardinality(AppPositions(app_layout))

\* a later run found box 3 of an earlier run in the directory, removed it,
\* and reported the single box of its own layout result
C10_Witness ==
    /\ mode = "app" /\ pc = "app_page" /\ app_idx >= 1 /\ runs >= 2
    /\ \E f \in tmp[app_idx - 1].removed : f.name = ImageSegmentName(3)
    /\ Len(app_layout) = 1
    /\ Len(ocr_text[1].entries) = 1

====
